---- MODULE Spec2Model ----
(***************************************************************************)
(* The /upload handler of lightrag/api/routers/document_routes.py          *)
(* (upload_to_input_dir) as a state machine.                               *)
(*                                                                         *)
(* State: the input directory (path -> bytes), the document-status store   *)
(* (file name -> record), one record per upload request (its locals, its   *)
(* position in the handler, its response), the BackgroundTasks object of   *)
(* every request, and the event loop of every server worker process.       *)
(*                                                                         *)
(* Scheduling.  The handler is a coroutine whose only suspension point is  *)
(* the await of line 41.  Within one worker process the code before the    *)
(* await and the code after it each run without interruption by another    *)
(* coroutine of the same event loop; requests served by different worker   *)
(* processes share the input directory and the store and interleave at     *)
(* every filesystem operation.                                             *)
(***************************************************************************)
EXTENDS Integers, Sequences, FiniteSets, TLC

\* ------------------------------------------------------------------ bounds
MaxRequests == 2

Requests == 1..MaxRequests
\* Server worker processes, each with its own event loop.
Workers == {1, 2}

\* ------------------------------------------------------------- input sets
\* Declared file names of the multipart upload (file.filename).
FileNames == {"a.txt", "../a.txt", "a.txt.meta.json", "b.exe"}
\* Byte content of the stream uploaded by request r (file.file).  The handler
\* copies the bytes and never inspects them, so every request uploads two
\* bytes of its own, which tell whose bytes a file holds.
Content(r) == ToString(r) \o ToString(r)
\* Optional[str]: <<>> is None, <<s>> is the string s.
None == <<>>
Some(v) == <<v>>
Metadatas == {None, Some(""), Some("{\"k\": 1}"), Some("\"hello\""),
              Some("[1,2,3]"), Some("{bad")}

\* ------------------------------------------------------- string utilities
StartsWith(s, p) == Len(s) >= Len(p) /\ SubSeq(s, 1, Len(p)) = p
EndsWith(s, p) == Len(s) >= Len(p) /\ SubSeq(s, Len(s) - Len(p) + 1, Len(s)) = p
Drop(s, n) == SubSeq(s, n + 1, Len(s))
Contains(s, p) == \E i \in 0..(Len(s) - Len(p)) : SubSeq(s, i + 1, i + Len(p)) = p

\* str.replace(pat, ""): every occurrence of pat removed, left to right.
RECURSIVE RemoveAll(_, _)
RemoveAll(s, pat) ==
    IF Len(s) < Len(pat) THEN s
    ELSE IF StartsWith(s, pat) THEN RemoveAll(Drop(s, Len(pat)), pat)
    ELSE SubSeq(s, 1, 1) \o RemoveAll(Drop(s, 1), pat)

\* ---------------------------------------------------------- collaborators
\* doc_manager.input_dir
input_dir == "inputs"

\* doc_manager.supported_extensions
supported_extensions == <<".txt", ".json">>

\* repr of the extension tuple, as the f-string of line 37 renders it.
RECURSIVE ReprItems(_)
ReprItems(exts) ==
    IF Len(exts) = 0 THEN ""
    ELSE "'" \o Head(exts) \o "'"
         \o (IF Len(exts) > 1 THEN ", " ELSE "")
         \o ReprItems(Tail(exts))
Repr(exts) == "(" \o ReprItems(exts) \o ")"

\* sanitize_filename(name, input_dir): path separators and ".." removed.
sanitize_filename(name) == RemoveAll(RemoveAll(name, "/"), "..")

\* doc_manager.is_supported_file(name)
is_supported_file(name) ==
    \E i \in 1..Len(supported_extensions) : EndsWith(name, supported_extensions[i])

\* generate_track_id(prefix): prefix, "_" and a part unique to the call.
generate_track_id(prefix, unique) == prefix \o "_" \o ToString(unique)

\* ------------------------------------------------------------ filesystem
\* A directory is a function from the paths that exist to their bytes.
Exists(dir, path) == path \in DOMAIN dir
WriteFile(dir, path, bytes) ==
    [p \in DOMAIN dir \cup {path} |-> IF p = path THEN bytes ELSE dir[p]]

\* input_dir / safe_filename  (line 50)
FilePath(safe_filename) == input_dir \o "/" \o safe_filename
\* str(file_path) + ".meta.json"  (line 75)
MetaPath(file_path) == file_path \o ".meta.json"
\* Path.name
BaseName(file_path) == Drop(file_path, Len(input_dir) + 1)

\* ------------------------------------------------------------------- json
\* JSON values as json.loads returns them, tagged with their Python type.
JStr(s) == [type |-> "str", s |-> s]
JInt(n) == [type |-> "int", n |-> n]
JLit(l) == [type |-> "lit", lit |-> l]
JList(items) == [type |-> "list", items |-> items]
JDict(pairs) == [type |-> "dict", pairs |-> pairs]
Pair(k, v) == [key |-> k, val |-> v]

Fail == [ok |-> FALSE]
Ok(v, rest) == [ok |-> TRUE, value |-> v, rest |-> rest]

Char(s) == SubSeq(s, 1, 1)
Whitespace == {" ", "\n", "\t", "\r"}
Digits == <<"0", "1", "2", "3", "4", "5", "6", "7", "8", "9">>
IsDigit(c) == \E i \in 1..10 : Digits[i] = c
DigitVal(c) == (CHOOSE i \in 1..10 : Digits[i] = c) - 1

RECURSIVE SkipWs(_)
SkipWs(s) == IF Len(s) > 0 /\ Char(s) \in Whitespace THEN SkipWs(Drop(s, 1)) ELSE s

RECURSIVE ParseDigits(_, _)
ParseDigits(s, acc) ==
    IF Len(s) > 0 /\ IsDigit(Char(s))
    THEN ParseDigits(Drop(s, 1), 10 * acc + DigitVal(Char(s)))
    ELSE Ok(JInt(acc), s)

ParseInt(s) ==
    IF StartsWith(s, "-")
    THEN IF Len(s) > 1 /\ IsDigit(Char(Drop(s, 1)))
         THEN LET r == ParseDigits(Drop(s, 1), 0) IN Ok(JInt(0 - r.value.n), r.rest)
         ELSE Fail
    ELSE ParseDigits(s, 0)

\* The characters after an opening quote, up to the closing one.
RECURSIVE ParseStrBody(_, _)
ParseStrBody(s, acc) ==
    IF Len(s) = 0 THEN Fail
    ELSE IF Char(s) = "\"" THEN Ok(JStr(acc), Drop(s, 1))
    ELSE IF Char(s) = "\\"
         THEN IF Len(s) < 2 THEN Fail
              ELSE LET e == Char(Drop(s, 1)) IN
                   IF e = "\"" \/ e = "\\" THEN ParseStrBody(Drop(s, 2), acc \o e)
                   ELSE IF e = "n" THEN ParseStrBody(Drop(s, 2), acc \o "\n")
                   ELSE IF e = "t" THEN ParseStrBody(Drop(s, 2), acc \o "\t")
                   ELSE Fail
    ELSE IF Char(s) = "\n" THEN Fail
    ELSE ParseStrBody(Drop(s, 1), acc \o Char(s))

RECURSIVE ParseValue(_)
RECURSIVE ParseElements(_, _)
RECURSIVE ParseMembers(_, _)

\* s follows "[" or ","; acc holds the elements read so far.
ParseElements(s, acc) ==
    LET v == ParseValue(s) IN
    IF ~v.ok THEN Fail
    ELSE LET t == SkipWs(v.rest) IN
         IF StartsWith(t, ",") THEN ParseElements(Drop(t, 1), Append(acc, v.value))
         ELSE IF StartsWith(t, "]") THEN Ok(JList(Append(acc, v.value)), Drop(t, 1))
         ELSE Fail

\* dict item assignment: a repeated key keeps its place and takes the new value.
PutPair(pairs, k, v) ==
    IF \E i \in 1..Len(pairs) : pairs[i].key = k
    THEN [i \in 1..Len(pairs) |-> IF pairs[i].key = k THEN Pair(k, v) ELSE pairs[i]]
    ELSE Append(pairs, Pair(k, v))

\* s follows "{" or ","; acc holds the members read so far.
ParseMembers(s, acc) ==
    LET t == SkipWs(s) IN
    IF ~StartsWith(t, "\"") THEN Fail
    ELSE LET k == ParseStrBody(Drop(t, 1), "") IN
         IF ~k.ok THEN Fail
         ELSE LET u == SkipWs(k.rest) IN
              IF ~StartsWith(u, ":") THEN Fail
              ELSE LET v == ParseValue(Drop(u, 1)) IN
                   IF ~v.ok THEN Fail
                   ELSE LET w == SkipWs(v.rest)
                            m == PutPair(acc, k.value.s, v.value)
                        IN IF StartsWith(w, ",") THEN ParseMembers(Drop(w, 1), m)
                           ELSE IF StartsWith(w, "}") THEN Ok(JDict(m), Drop(w, 1))
                           ELSE Fail

ParseValue(s) ==
    LET t == SkipWs(s) IN
    IF Len(t) = 0 THEN Fail
    ELSE IF StartsWith(t, "{")
         THEN IF StartsWith(SkipWs(Drop(t, 1)), "}")
              THEN Ok(JDict(<<>>), Drop(SkipWs(Drop(t, 1)), 1))
              ELSE ParseMembers(Drop(t, 1), <<>>)
    ELSE IF StartsWith(t, "[")
         THEN IF StartsWith(SkipWs(Drop(t, 1)), "]")
              THEN Ok(JList(<<>>), Drop(SkipWs(Drop(t, 1)), 1))
              ELSE ParseElements(Drop(t, 1), <<>>)
    ELSE IF StartsWith(t, "\"") THEN ParseStrBody(Drop(t, 1), "")
    ELSE IF StartsWith(t, "-") \/ IsDigit(Char(t)) THEN ParseInt(t)
    ELSE IF StartsWith(t, "true") THEN Ok(JLit("true"), Drop(t, 4))
    ELSE IF StartsWith(t, "false") THEN Ok(JLit("false"), Drop(t, 5))
    ELSE IF StartsWith(t, "null") THEN Ok(JLit("null"), Drop(t, 4))
    ELSE Fail

\* json.loads(text): a value, or JSONDecodeError (ok = FALSE).  Numbers are
\* the integers; objects, arrays, strings and the three literals are whole.
JsonLoads(text) ==
    LET r == ParseValue(text) IN
    IF r.ok /\ Len(SkipWs(r.rest)) = 0 THEN [ok |-> TRUE, value |-> r.value] ELSE Fail

RECURSIVE Escape(_)
Escape(s) ==
    IF Len(s) = 0 THEN ""
    ELSE (IF Char(s) = "\"" THEN "\\\""
          ELSE IF Char(s) = "\\" THEN "\\\\"
          ELSE IF Char(s) = "\n" THEN "\\n"
          ELSE IF Char(s) = "\t" THEN "\\t"
          ELSE Char(s)) \o Escape(Drop(s, 1))
Quote(s) == "\"" \o Escape(s) \o "\""

RECURSIVE Spaces(_)
Spaces(n) == IF n = 0 THEN "" ELSE " " \o Spaces(n - 1)

RECURSIVE Dump(_, _)
RECURSIVE DumpItems(_, _)
RECURSIVE DumpPairs(_, _)
DumpItems(items, ind) ==
    Spaces(ind) \o Dump(Head(items), ind)
    \o (IF Len(items) > 1 THEN ",\n" \o DumpItems(Tail(items), ind) ELSE "")
DumpPairs(pairs, ind) ==
    Spaces(ind) \o Quote(Head(pairs).key) \o ": " \o Dump(Head(pairs).val, ind)
    \o (IF Len(pairs) > 1 THEN ",\n" \o DumpPairs(Tail(pairs), ind) ELSE "")
Dump(v, ind) ==
    IF v.type = "str" THEN Quote(v.s)
    ELSE IF v.type = "int" THEN ToString(v.n)
    ELSE IF v.type = "lit" THEN v.lit
    ELSE IF v.type = "list"
         THEN IF Len(v.items) = 0 THEN "[]"
              ELSE "[\n" \o DumpItems(v.items, ind + 2) \o "\n" \o Spaces(ind) \o "]"
    ELSE IF Len(v.pairs) = 0 THEN "{}"
         ELSE "{\n" \o DumpPairs(v.pairs, ind + 2) \o "\n" \o Spaces(ind) \o "}"

\* json.dump(value, f, ensure_ascii=False, indent=2): the text written.
JsonDump(v) == Dump(v, 0)

\* ------------------------------------------------- responses, exceptions
\* InsertResponse(status=..., message=..., track_id=...), sent with 200.
InsertResponse(status, message, track_id) ==
    [status_code |-> 200, status |-> status, message |-> message, track_id |-> track_id]
\* HTTPException(status_code=..., detail=...)
HTTPException(status_code, detail) ==
    [class |-> "HTTPException", status_code |-> status_code, detail |-> detail]
\* Any other exception, with the message str() gives.
OtherException(class, msg) == [class |-> class, msg |-> msg]
\* str(e): Starlette renders an HTTPException as "<status_code>: <detail>".
Str(e) ==
    IF e.class = "HTTPException" THEN ToString(e.status_code) \o ": " \o e.detail
    ELSE e.msg
NoResponse == [status_code |-> 0]

\* Lines 35-38: the exception raised for an unsupported extension.
UnsupportedFileType ==
    HTTPException(400, "Unsupported file type. Supported types: "
                       \o Repr(supported_extensions))

\* A handler that drops the exception's message.
ExceptHandler_NoDetail(e) == [status_code |-> 500, detail |-> "Internal Server Error"]

\* Lines 90-93: every exception raised inside the try block, the
\* HTTPException of line 35 included, is caught and raised again as a 500.
ExceptHandler(e) == [status_code |-> 500, detail |-> Str(e)]

\* An extension check that rejects nothing.
ExtensionRejected_Never(safe_filename) == FALSE

\* Line 34: the extension check.
ExtensionRejected(safe_filename) == ~is_supported_file(safe_filename)

\* A store check that ignores the record found.
HasRecord_Never(existing_doc_data) == FALSE

\* Line 42: truthiness of the store's answer (None and {} are falsy).
HasRecord(existing_doc_data) ==
    existing_doc_data # None /\ DOMAIN existing_doc_data[1] # {}
\* Line 43: existing_doc_data.get("status", "unknown")
RecordStatus(record) ==
    IF "status" \in DOMAIN record THEN record.status ELSE "unknown"

\* Lines 44-48
DuplicatedInStorage(safe_filename, record) ==
    InsertResponse("duplicated",
        "File '" \o safe_filename \o "' already exists in document storage (Status: "
        \o RecordStatus(record) \o ").", "")
\* Lines 52-56
DuplicatedInInputDir(safe_filename) ==
    InsertResponse("duplicated",
        "File '" \o safe_filename \o "' already exists in the input directory.", "")
\* Lines 84-88
UploadSucceeded(safe_filename, track_id) ==
    InsertResponse("success",
        "File '" \o safe_filename
        \o "' uploaded successfully. Processing will continue in background.", track_id)

\* A filesystem check that never finds the file.
FileExists_Never(dir, file_path) == FALSE

\* Line 51: file_path.exists()
FileExists(dir, file_path) == Exists(dir, file_path)

\* Line 66: `if metadata:` (None and "" are falsy).
MetadataGiven(metadata) == metadata # None /\ Len(metadata[1]) > 0

\* Lines 68-73: the object written to the sidecar.
RawMetadata(text) == JDict(<<Pair("raw_metadata", JStr(text))>>)
\* Metadata wrapped without being parsed.
ParseMetadata_AlwaysRaw(text) == RawMetadata(text)
\* Metadata parsed without the isinstance(parsed_metadata, dict) check.
ParseMetadata_AnyJson(text) ==
    LET r == JsonLoads(text) IN IF r.ok THEN r.value ELSE RawMetadata(text)
ParseMetadata(text) ==
    LET r == JsonLoads(text) IN
    IF r.ok /\ r.value.type = "dict" THEN r.value ELSE RawMetadata(text)

\* A task scheduled without the generated track id.
IndexTask_NoTrackId(file_path, track_id) ==
    [func |-> "pipeline_index_file", file_path |-> file_path, track_id |-> ""]

\* Line 82: the task handed to BackgroundTasks.add_task.
IndexTask(file_path, track_id) ==
    [func |-> "pipeline_index_file", file_path |-> file_path, track_id |-> track_id]

\* Indexing scheduled before the file is saved.
StepOrder_TaskFirst == <<"check", "schedule", "open", "copy", "meta", "respond">>

\* Lines 42-88: the order of the handler's steps after the await.
StepOrder == <<"check", "open", "copy", "meta", "schedule", "respond">>
NextStep(step) ==
    LET i == CHOOSE j \in 1..Len(StepOrder) : StepOrder[j] = step
    IN IF i = Len(StepOrder) THEN "done" ELSE StepOrder[i + 1]

\* Bytes written at an offset of a file's current content.
WriteAt(old, offset, bytes) ==
    SubSeq(old, 1, offset) \o bytes \o Drop(old, offset + Len(bytes))

\* ------------------------------------------------------------------ state
VARIABLES
    fs,                \* the input directory: path -> bytes
    doc_status,        \* rag.doc_status: file name -> record
    req,               \* request -> its locals, position and response
    background_tasks,  \* request -> tasks added to its BackgroundTasks
    loop               \* worker -> the request whose code it is running, or 0

vars == <<fs, doc_status, req, background_tasks, loop>>

NewRequest ==
    [pc |-> "idle", worker |-> 0, safe_filename |-> "",
     existing_doc_data |-> None, content |-> "", metadata |-> None,
     track_id |-> "", response |-> NoResponse,
     \* history: whether the store was queried, the paths this request opened
     \* for writing, those it wrote to the end, and where an exception arose
     queried |-> FALSE, opened |-> {}, written |-> {}, error_at |-> ""]

\* A record left in the store by an earlier ingestion, without a file.
StoredRecords == {<<>>, [n \in {"a.txt"} |-> [file_path |-> "a.txt"]]}

Init ==
    /\ fs = <<>>
    /\ doc_status \in StoredRecords
    /\ req = [r \in Requests |-> NewRequest]
    /\ background_tasks = [r \in Requests |-> <<>>]
    /\ loop = [w \in Workers |-> 0]

file_path(r) == FilePath(req[r].safe_filename)
meta_path(r) == MetaPath(file_path(r))

\* The request ends: its response is sent and its worker's loop is free.
Finish(r, response, at) ==
    /\ req' = [req EXCEPT ![r].pc = "done", ![r].response = response,
                          ![r].error_at = at, ![r].worker = 0]
    /\ loop' = [loop EXCEPT ![req[r].worker] = 0]

\* The workers that hold a request, suspended or running.
Serving == {req[q].worker : q \in Requests} \ {0}
\* A request goes to a worker whose loop is not running code: one that
\* already holds a suspended request, or the first of the idle ones (idle
\* processes are interchangeable).
Dispatch(w) ==
    /\ loop[w] = 0
    /\ w \in Serving \/ \A v \in Workers \ Serving : w <= v

\* ---------------------------------------------------------------- actions
\* Lines 29-41: sanitize, check the extension, query the store and suspend.
Start(r) ==
    /\ req[r].pc = "idle"
    /\ \A q \in Requests : q < r => req[q].pc # "idle"
    /\ \E filename \in FileNames, w \in Workers :
        /\ Dispatch(w)
        /\ LET safe == sanitize_filename(filename)
               base == [req[r] EXCEPT !.worker = w, !.safe_filename = safe]
           IN IF ExtensionRejected(safe)
              THEN req' = [req EXCEPT ![r] =
                       [base EXCEPT !.pc = "done", !.worker = 0, !.error_at = "extension",
                                    !.response = ExceptHandler(UnsupportedFileType)]]
              ELSE \/ req' = [req EXCEPT ![r] =
                         [base EXCEPT !.pc = StepOrder[1], !.queried = TRUE,
                            !.existing_doc_data =
                                IF safe \in DOMAIN doc_status
                                THEN Some(doc_status[safe]) ELSE None]]
                   \/ req' = [req EXCEPT ![r] =
                         [base EXCEPT !.pc = "done", !.worker = 0, !.queried = TRUE,
                            !.error_at = "store",
                            !.response = ExceptHandler(
                                OtherException("ConnectionError", "doc_status unavailable"))]]
    /\ UNCHANGED <<fs, doc_status, background_tasks, loop>>

\* Lines 42-56: the coroutine resumes; the two duplicate checks.
CheckDuplicate(r) ==
    /\ req[r].pc = "check"
    /\ loop[req[r].worker] = 0
    /\ IF HasRecord(req[r].existing_doc_data)
       THEN /\ req' = [req EXCEPT ![r].pc = "done", ![r].worker = 0, ![r].response =
                    DuplicatedInStorage(req[r].safe_filename, req[r].existing_doc_data[1])]
            /\ UNCHANGED loop
       ELSE IF FileExists(fs, file_path(r))
       THEN /\ req' = [req EXCEPT ![r].pc = "done", ![r].worker = 0, ![r].response =
                    DuplicatedInInputDir(req[r].safe_filename)]
            /\ UNCHANGED loop
       ELSE /\ req' = [req EXCEPT ![r].pc = NextStep("check")]
            /\ loop' = [loop EXCEPT ![req[r].worker] = r]
    /\ UNCHANGED <<fs, doc_status, background_tasks>>

\* Line 59: open(file_path, "wb") creates the file or truncates it.
OpenFile(r) ==
    /\ req[r].pc = "open"
    /\ \/ /\ fs' = WriteFile(fs, file_path(r), "")
          /\ req' = [req EXCEPT ![r].pc = NextStep("open"),
                                ![r].opened = @ \cup {file_path(r)}]
          /\ UNCHANGED loop
       \/ /\ Finish(r, ExceptHandler(OtherException("PermissionError",
                    "[Errno 13] Permission denied: '" \o file_path(r) \o "'")), "open")
          /\ UNCHANGED fs
    /\ UNCHANGED <<doc_status, background_tasks>>

\* Lines 60-63: copy the stream into the file, then generate the track id.
CopyFile(r) ==
    /\ req[r].pc = "copy"
    /\ LET content == Content(r)
           old == IF Exists(fs, file_path(r)) THEN fs[file_path(r)] ELSE ""
       IN \/ /\ fs' = WriteFile(fs, file_path(r), WriteAt(old, 0, content))
             /\ req' = [req EXCEPT ![r].pc = NextStep("copy"),
                                   ![r].content = content,
                                   ![r].written = @ \cup {file_path(r)},
                                   ![r].track_id = generate_track_id("upload", r)]
             /\ UNCHANGED loop
          \* the copy fails part-way
          \/ /\ fs' = WriteFile(fs, file_path(r),
                                WriteAt(old, 0, SubSeq(content, 1, Len(content) - 1)))
             /\ Finish(r, ExceptHandler(OtherException("OSError",
                       "[Errno 28] No space left on device")), "copy")
    /\ UNCHANGED <<doc_status, background_tasks>>

\* Lines 66-79: the metadata sidecar, when a non-empty string was sent.
\* The metadata form field is first read here, and its value is bound here.
WriteMeta(r) ==
    /\ req[r].pc = "meta"
    /\ \E metadata \in Metadatas :
        IF ~MetadataGiven(metadata)
        THEN /\ req' = [req EXCEPT ![r].pc = NextStep("meta"), ![r].metadata = metadata]
             /\ UNCHANGED <<fs, loop>>
        ELSE \/ /\ fs' = WriteFile(fs, meta_path(r), JsonDump(ParseMetadata(metadata[1])))
                /\ req' = [req EXCEPT ![r].pc = NextStep("meta"),
                                      ![r].metadata = metadata,
                                      ![r].opened = @ \cup {meta_path(r)},
                                      ![r].written = @ \cup {meta_path(r)}]
                /\ UNCHANGED loop
             \* open(meta_path, "w") succeeds, the write or the close fails
             \/ /\ fs' = WriteFile(fs, meta_path(r), "")
                /\ req' = [req EXCEPT ![r].pc = "done", ![r].worker = 0,
                                      ![r].metadata = metadata,
                                      ![r].opened = @ \cup {meta_path(r)},
                                      ![r].error_at = "meta",
                                      ![r].response = ExceptHandler(OtherException(
                                          "OSError", "[Errno 28] No space left on device"))]
                /\ loop' = [loop EXCEPT ![req[r].worker] = 0]
             \* open(meta_path, "w") fails
             \/ /\ UNCHANGED fs
                /\ req' = [req EXCEPT ![r].pc = "done", ![r].worker = 0,
                                      ![r].metadata = metadata,
                                      ![r].error_at = "meta",
                                      ![r].response = ExceptHandler(OtherException(
                                          "PermissionError",
                                          "[Errno 13] Permission denied: '"
                                          \o meta_path(r) \o "'"))]
                /\ loop' = [loop EXCEPT ![req[r].worker] = 0]
    /\ UNCHANGED <<doc_status, background_tasks>>

\* Line 82: background_tasks.add_task(pipeline_index_file, rag, file_path, track_id)
AddTask(r) ==
    /\ req[r].pc = "schedule"
    /\ background_tasks' = [background_tasks EXCEPT ![r] =
                               Append(@, IndexTask(file_path(r), req[r].track_id))]
    /\ req' = [req EXCEPT ![r].pc = NextStep("schedule")]
    /\ UNCHANGED <<fs, doc_status, loop>>

\* Lines 84-88: the success response.
Respond(r) ==
    /\ req[r].pc = "respond"
    /\ Finish(r, UploadSucceeded(req[r].safe_filename, req[r].track_id), "")
    /\ UNCHANGED <<fs, doc_status, background_tasks>>

\* After the response, the worker runs the request's background task:
\* pipeline_index_file enters the file in the document-status store.
IndexFile(r) ==
    /\ req[r].pc = "done"
    /\ Len(background_tasks[r]) > 0
    /\ LET task == background_tasks[r][1]
           name == BaseName(task.file_path)
       IN /\ name \notin DOMAIN doc_status
          /\ doc_status' = WriteFile(doc_status, name,
                 [status |-> "pending", file_path |-> name, track_id |-> task.track_id])
    /\ UNCHANGED <<fs, req, background_tasks, loop>>

Step(r) ==
    \/ CheckDuplicate(r)
    \/ OpenFile(r)
    \/ CopyFile(r)
    \/ WriteMeta(r)
    \/ AddTask(r)
    \/ Respond(r)
    \/ IndexFile(r)

\* Requests arrive at any time and are served concurrently.
Next == \E r \in Requests : Start(r) \/ Step(r)
Spec == Init /\ [][Next]_vars

\* Non-overlapping requests: one arrives only when none is being handled.
NoneInFlight == \A q \in Requests : req[q].pc \in {"idle", "done"}
SeqStart(r) == NoneInFlight /\ Start(r)
SeqNext == \E r \in Requests : SeqStart(r) \/ Step(r)
SeqSpec == Init /\ [][SeqNext]_vars

\* ----------------------------------------------------------------- claims
Done(r) == req[r].pc = "done"
Succeeded(r) == req[r].response.status_code = 200 /\ req[r].response.status = "success"
Duplicated(r) ==
    req[r].response.status_code = 200 /\ req[r].response.status = "duplicated"
Supported(r) == is_supported_file(req[r].safe_filename)
\* No request arrived after r.
Latest(r) == \A q \in Requests : q > r => req[q].pc = "idle"
\* An earlier request created the file at r's target path (as its document
\* or as its sidecar).
OccupiedBy(p, r) == p < r /\ file_path(r) \in req[p].opened
Occupied(r) == \E p \in Requests : OccupiedBy(p, r)
\* r passed both duplicate checks' preconditions and met no I/O failure.
Accepted(r) ==
    /\ Done(r) /\ Supported(r)
    /\ req[r].existing_doc_data = None
    /\ ~Occupied(r)
    /\ req[r].error_at = ""
ParsesToObject(text) == JsonLoads(text).ok /\ JsonLoads(text).value.type = "dict"

\* C1: every upload whose sanitized name has an unsupported extension ends
\* with status code 400 and a detail that lists the supported extensions.
C1_UnsupportedIs400 ==
    \A r \in Requests :
        Done(r) /\ ~Supported(r) =>
            /\ req[r].response.status_code = 400
            /\ Contains(req[r].response.detail, Repr(supported_extensions))

\* C2: an upload whose sanitized name has an unsupported extension opens no
\* file of the input directory for writing (document or sidecar), does not
\* query the document-status store and schedules no background task.
C2_UnsupportedNoEffect ==
    \A r \in Requests :
        req[r].pc # "idle" /\ ~Supported(r) =>
            /\ Done(r)
            /\ ~req[r].queried
            /\ req[r].opened = {} /\ req[r].written = {}
            /\ background_tasks[r] = <<>>
C2_Witness ==
    \E r \in Requests :
        /\ Done(r) /\ req[r].safe_filename = "b.exe"
        /\ req[r].response.status_code # 200
        /\ DOMAIN fs # {}

\* C3: when the store returned a record for the sanitized name, the upload
\* answers "duplicated" with track_id "" and a message embedding the
\* record's status, writes no file and schedules no task, whether or not a
\* file exists at the target path.
C3_StoreDuplicate ==
    \A r \in Requests :
        Done(r) /\ req[r].existing_doc_data # None =>
            LET record == req[r].existing_doc_data[1]
                status == IF "status" \in DOMAIN record THEN record.status ELSE "unknown"
            IN /\ Duplicated(r)
               /\ req[r].response.track_id = ""
               /\ Contains(req[r].response.message, "(Status: " \o status \o ")")
               /\ req[r].opened = {} /\ req[r].written = {}
               /\ background_tasks[r] = <<>>
C3_Witness ==
    \E r \in Requests :
        /\ Done(r) /\ req[r].existing_doc_data # None
        /\ Exists(fs, file_path(r))
        /\ Contains(req[r].response.message, "(Status: pending)")

\* C4: with non-overlapping requests, an upload that finds no store record
\* but a file at its target path answers "duplicated" with track_id "" and
\* writes nothing; a document saved by a request keeps its content unless
\* the sidecar of an upload of another name is written over it.
C4_FileDuplicateKept ==
    /\ \A r \in Requests :
        (/\ Done(r) /\ req[r].queried /\ req[r].error_at # "store"
         /\ req[r].existing_doc_data = None
         /\ Occupied(r)) =>
            /\ Duplicated(r)
            /\ req[r].response.track_id = ""
            /\ req[r].opened = {} /\ req[r].written = {}
    /\ \A r \in Requests :
        file_path(r) \in req[r].written =>
            \/ fs[file_path(r)] = req[r].content
            \/ \E q \in Requests :
                /\ req[q].safe_filename # req[r].safe_filename
                /\ meta_path(q) = file_path(r)
                /\ meta_path(q) \in req[q].opened
C4_Witness ==
    \E p, r \in Requests :
        /\ OccupiedBy(p, r) /\ req[p].safe_filename = req[r].safe_filename
        /\ Succeeded(p) /\ Done(r) /\ Duplicated(r)
        /\ req[r].existing_doc_data = None
        /\ fs[file_path(r)] = req[p].content

\* C5: a new upload with a supported extension and metadata that parses as
\* a JSON object, met by no I/O failure, leaves the document holding the
\* uploaded bytes and the sidecar holding exactly the parsed object, and
\* answers "success" with the non-empty track id generated for "upload".
C5_ObjectMetadataSaved ==
    \A r \in Requests :
        (/\ Accepted(r) /\ Latest(r)
         /\ req[r].metadata # None
         /\ ParsesToObject(req[r].metadata[1])) =>
            /\ Succeeded(r)
            /\ req[r].content = ToString(r) \o ToString(r)
            /\ fs[file_path(r)] = req[r].content
            /\ Exists(fs, meta_path(r))
            /\ JsonLoads(fs[meta_path(r)]) = JsonLoads(req[r].metadata[1])
            /\ req[r].response.track_id # ""
            /\ StartsWith(req[r].response.track_id, "upload_")
C5_Witness ==
    \E r \in Requests :
        /\ Accepted(r) /\ Latest(r) /\ Succeeded(r)
        /\ req[r].metadata = Some("{\"k\": 1}")
        /\ JsonLoads(fs[meta_path(r)]).value = JDict(<<Pair("k", JInt(1))>>)

\* C6: for an accepted upload whose non-empty metadata does not parse as
\* JSON or parses to a non-object, the sidecar is the object
\* {"raw_metadata": <the metadata string>} and the answer is "success".
C6_RawMetadataWrapped ==
    \A r \in Requests :
        (/\ Accepted(r) /\ Latest(r)
         /\ req[r].metadata # None
         /\ req[r].metadata[1] # ""
         /\ ~ParsesToObject(req[r].metadata[1])) =>
            /\ Succeeded(r)
            /\ Exists(fs, meta_path(r))
            /\ JsonLoads(fs[meta_path(r)]) =
                   [ok |-> TRUE,
                    value |-> JDict(<<Pair("raw_metadata", JStr(req[r].metadata[1]))>>)]
C6_Witness ==
    \E r, q \in Requests :
        /\ Accepted(r) /\ Succeeded(r) /\ req[r].metadata = Some("[1,2,3]")
        /\ Accepted(q) /\ Latest(q) /\ Succeeded(q) /\ req[q].metadata = Some("{bad")
        /\ fs[meta_path(q)] = "{\n  \"raw_metadata\": \"{bad\"\n}"

\* C7: of two concurrent uploads of the same sanitized name, with no prior
\* record and no prior file, at most one answers "success".
C7_AtMostOneWins ==
    \A r, q \in Requests :
        (/\ r # q /\ Done(r) /\ Done(q)
         /\ req[r].safe_filename = req[q].safe_filename
         /\ req[r].existing_doc_data = None /\ req[q].existing_doc_data = None) =>
            ~(Succeeded(r) /\ Succeeded(q))

\* C8: when the sidecar write fails after the document was saved, the
\* request ends with status 500 carrying the exception's message, the
\* document stays on disk, no task is scheduled, and a later sequential
\* upload of the same name is answered "duplicated" by the filesystem check.
C8_SidecarFailure ==
    \A r \in Requests :
        Done(r) /\ req[r].error_at = "meta" =>
            /\ req[r].response.status_code = 500
            /\ req[r].response.detail \in
                   {"[Errno 28] No space left on device",
                    "[Errno 13] Permission denied: '" \o meta_path(r) \o "'"}
            /\ Exists(fs, file_path(r))
            /\ Latest(r) => fs[file_path(r)] = req[r].content
            /\ background_tasks[r] = <<>>
            /\ \A q \in Requests :
                (/\ q > r /\ Done(q) /\ req[q].error_at # "store"
                 /\ req[q].safe_filename = req[r].safe_filename) =>
                    /\ Duplicated(q)
                    /\ Contains(req[q].response.message,
                                "already exists in the input directory")
                    /\ req[q].opened = {}
C8_Witness ==
    \E r, q \in Requests :
        /\ q > r /\ Done(r) /\ req[r].error_at = "meta"
        /\ ~Exists(fs, meta_path(r))
        /\ Done(q) /\ req[q].safe_filename = req[r].safe_filename
        /\ Duplicated(q)

\* C9: a background task is in a request's BackgroundTasks only after that
\* request wrote the document to the end and, when metadata was supplied,
\* wrote the sidecar; the task names the request's target path.
C9_TaskAfterWrite ==
    \A r \in Requests :
        Len(background_tasks[r]) > 0 =>
            /\ file_path(r) \in req[r].written
            /\ (req[r].metadata # None /\ req[r].metadata[1] # "")
                   => meta_path(r) \in req[r].written
            /\ background_tasks[r][1].file_path = file_path(r)
C9_Witness ==
    \E r \in Requests :
        /\ req[r].pc = "respond"
        /\ Len(background_tasks[r]) = 1
        /\ req[r].metadata # None /\ req[r].metadata[1] # ""
        /\ Exists(fs, meta_path(r))

\* C10: a finished request answered "success" exactly if it scheduled one
\* task, which carries the response's track id; a request that answered
\* "duplicated" or ended with an error scheduled none.
C10_SuccessIffOneTask ==
    \A r \in Requests :
        /\ Len(background_tasks[r]) <= 1
        /\ Done(r) =>
            /\ Succeeded(r) <=> Len(background_tasks[r]) = 1
            /\ Succeeded(r) =>
                   /\ background_tasks[r][1].track_id = req[r].response.track_id
                   /\ background_tasks[r][1].func = "pipeline_index_file"
                   /\ req[r].response.track_id # ""
            /\ ~Succeeded(r) => background_tasks[r] = <<>>
C10_Witness ==
    \E r, q \in Requests :
        /\ Done(r) /\ Succeeded(r) /\ Len(background_tasks[r]) = 1
        /\ Done(q) /\ req[q].error_at = "meta" /\ Exists(fs, file_path(q))
        /\ background_tasks[q] = <<>>

====
